---- MODULE Spec2Model ----
(***************************************************************************)
(* Inkbird IDT-34c-B supervisor (src/deadlock.py): device state machine,   *)
(* retry timers, slot allocator, sample register.                          *)
(*                                                                         *)
(* Threads.  The GLib loop thread "L" runs the bus-signal callbacks; every *)
(* threading.Timer runs its callback on a thread of its own: the sweep     *)
(* (scan_dbus) on "S", each fired retry timer on a retry thread.  The      *)
(* source holds no lock across a handler (only InkbirdDevice.lock, inside  *)
(* transition / can_act / schedule_retry / cancel_retry), so handlers of   *)
(* different threads interleave.  A thread can lose the processor where it *)
(* blocks in a synchronous bus call; the model switches threads exactly    *)
(* there: one step of a thread is "the pending bus call returns, and the   *)
(* code runs on to the next bus call".  frame[t].pc names the bus call     *)
(* thread t is blocked in.                                                 *)
(*                                                                         *)
(* src/deadlock.py uses the device map `inkbirds` and the handle maps      *)
(* temperatures / commands / batteries / bind without ever filling them;   *)
(* the map is the one of src/shock.py:69 and the handle maps are filled by *)
(* the GATT-characteristic branch of src/shock.py:332-355.                 *)
(***************************************************************************)
EXTENDS Integers, Sequences, FiniteSets, TLC

\* ---------------------------------------------------------------- bounds
NumPaths == 1
CapPaths == 8
MaxObj == 1
MaxR == 1
MaxSched == 5
NumKinds == 2
TearPaths == 2
SubPaths == 1
RegPaths == 1
Cycles == 25
AllocPaths == 3
StallPaths == 1
PairPaths == 1
HalfBits == 2

\* ------------------------------------------------------ program constants
MAXWAIT == 20
INITIAL_BACKOFF == 2
MAX_BACKOFF == 16
offset_init == 1000000000
NCHAN == 24

\* retry_backoff doubles without limit (deadlock.py:85); every value above
\* MAX_BACKOFF yields the same delay, so the model stops doubling there.
BackoffCap == 2 * MAX_BACKOFF

Min(a, b) == IF a < b THEN a ELSE b
Max(a, b) == IF a > b THEN a ELSE b

AllPaths == 1 .. Max(NumPaths, CapPaths)
Paths == 1 .. NumPaths
ObjIds == 1 .. Max(MaxObj, CapPaths)
RThreads == { <<"R", i>> : i \in 1 .. MaxR }
Threads == { <<"L", 0>>, <<"S", 0>> } \cup RThreads
LT == <<"L", 0>>
ST == <<"S", 0>>

Kinds == <<"temp", "cmd", "batt", "extra">>
FreeInit == {0, 4, 8, 12, 16, 20}
NoOffset == 0 - 1
NaN == 0 - 1000000

VARIABLES
  inkbirds,           \* device map: path -> object id (0: no record)
  obj,                \* InkbirdDevice objects: id -> fields
  allocated_offsets,  \* path -> offset (NoOffset: not a key)
  free_offsets,       \* set of <<key, offset>>: the dict's items
  temperatures,       \* paths with a temperature-characteristic handle
  commands,           \* paths with a command-characteristic handle
  batteries,          \* paths with a battery-characteristic handle
  bind,               \* path -> queued bindings (<<>>: none)
  subs,               \* path -> temperature_callback handlers connected (2: two or more)
  notifying,          \* path -> the characteristics with StartNotify done and no StopNotify since (history)
  thermostamp, thermofilter, thermocount, stamp,
  frame,              \* thread -> the call it is blocked in
  sweep,              \* scan_dbus: phase, enumeration, paths still to visit
  handled,            \* the path whose notification the last step handled (0: none)
  logger,             \* the logger thread: the statement it is at, its snapshot
  cycles,             \* feed/log cycles: the cycles done, those that found stamp set (history)
  decoded,            \* a byte pair, the channel it is sent on and what the decoder makes of it
  last,               \* path -> the offset it held before its last deallocate, while no
                      \* other path has taken it since (history)
  recording,          \* whether notifying and the frames' failed calls are recorded
  packet,             \* the payload of the last notification delivered (history)
  gatt_services       \* the device paths whose service is marked True (ready)

vars == << inkbirds, obj, allocated_offsets, free_offsets, temperatures, commands,
           batteries, bind, subs, notifying, thermostamp, thermofilter, thermocount, stamp,
           frame, sweep, handled, logger, cycles, decoded, last, recording, packet,
           gatt_services >>

devvars == << inkbirds, obj, allocated_offsets, free_offsets, temperatures, commands,
              batteries, bind, subs, notifying, frame, sweep, handled >>

regvars == << thermostamp, thermofilter, thermocount, stamp >>

auxvars == << logger, cycles, decoded, last, recording, packet, gatt_services >>

\* ------------------------------------------------------------ InkbirdDevice
NoObj == [ path |-> 0, state |-> "FREE", retry_backoff |-> 0, retry_timer |-> "None",
           interval |-> 0, timers |-> 0, nsched |-> 0 ]

\* InkbirdDevice.__init__.  retry_timer is the state of the Timer the
\* attribute refers to: "None", "Pending" (started, neither fired nor
\* cancelled) or "Dead"; interval is that Timer's delay.  timers counts the
\* object's started timers that have neither fired nor been cancelled.
\* nsched counts the retries scheduled since the last success or
\* cancel_retry (history, read by no action).
NewDevice(p) ==
  [ path |-> p, state |-> "DISCONNECTED", retry_backoff |-> INITIAL_BACKOFF,
    retry_timer |-> "None", interval |-> 0, timers |-> 0, nsched |-> 0 ]

transition(ob, o, new_state) == [ob EXCEPT ![o].state = new_state]

can_act(ob, o, expected_state) == ob[o].state = expected_state

\* a delay that is not capped at MAX_BACKOFF
Backoff_uncapped(d) == d.retry_backoff

\* the delay of the timer schedule_retry starts
Backoff(d) == Min(d.retry_backoff, MAX_BACKOFF)

\* the referenced timer is left running
CancelTimer_none(d) == d.timers

\* if self.retry_timer: self.retry_timer.cancel() -- the timers left
CancelTimer(d) == IF d.retry_timer = "Pending" THEN d.timers - 1 ELSE d.timers

schedule_retry_lost(ob, o) ==
  [ob EXCEPT ![o].timers = CancelTimer(ob[o]),
             ![o].retry_timer = "None",
             ![o].nsched = Min(ob[o].nsched + 1, MaxSched)]

\* schedule_retry: the referenced timer is cancelled, a new timer is started
\* with the capped delay, the backoff doubles
schedule_retry(ob, o) ==
  [ob EXCEPT ![o].timers = CancelTimer(ob[o]) + 1,
             ![o].retry_timer = "Pending",
             ![o].interval = Backoff(ob[o]),
             ![o].retry_backoff = Min(2 * ob[o].retry_backoff, BackoffCap),
             ![o].nsched = Min(ob[o].nsched + 1, MaxSched)]

cancel_retry(ob, o) ==
  [ob EXCEPT ![o].timers = CancelTimer(ob[o]),
             ![o].retry_timer = "None",
             ![o].interval = 0,
             ![o].retry_backoff = INITIAL_BACKOFF,
             ![o].nsched = 0]

\* ------------------------------------------------------------ slot allocator
FreeKeys(fr) == { kv[1] : kv \in fr }
FreeValues(fr) == { kv[2] : kv \in fr }
FreeAt(fr, k) == (CHOOSE kv \in fr : kv[1] = k)[2]
PathKey(p) == <<"path", p>>
SlotKey(s) == <<"slot", s>>

deallocate_drop(al, fr, p) == << [al EXCEPT ![p] = NoOffset], fr >>

\* deallocate(obj_path): <<allocated_offsets, free_offsets>> afterwards
deallocate(al, fr, p) ==
  IF al[p] # NoOffset
  THEN << [al EXCEPT ![p] = NoOffset],
          { kv \in fr : kv[1] # PathKey(p) } \cup { <<PathKey(p), al[p]>> } >>
  ELSE << al, fr >>

allocate_scan(al, fr, p) ==
  LET below == { kv \in fr : kv[2] < offset_init }
      pick == IF below = {} THEN << <<"none", 0>>, offset_init >>
              ELSE CHOOSE kv \in below : \A w \in below : kv[2] <= w[2]
  IN << [al EXCEPT ![p] = pick[2]], { kv \in fr : kv[1] # pick[1] } >>

\* the linear scan of allocate: the key of the smallest free offset below
\* 1e9, or no key (best = None)
ScanBest(fr) ==
  LET below == { kv \in fr : kv[2] < offset_init }
  IN IF below = {} THEN << <<"none", 0>>, offset_init >>
     ELSE CHOOSE kv \in below : \A w \in below : kv[2] <= w[2]

\* allocate(obj_path): <<allocated_offsets, free_offsets>> afterwards
allocate(al, fr, p) ==
  LET pick == IF PathKey(p) \in FreeKeys(fr)
              THEN << PathKey(p), FreeAt(fr, PathKey(p)) >>
              ELSE ScanBest(fr)
  IN << [al EXCEPT ![p] = pick[2]], { kv \in fr : kv[1] # pick[1] } >>

\* ------------------------------------------------------------ decoder
\* msbyte ^ 0x80 on a byte
Xor80_none(b) == b

Xor80(b) == IF b >= 128 THEN b - 128 ELSE b + 128

\* temperature(lsbyte, msbyte) in units of 1/(18 * Q) degree Celsius: the
\* source divides (value - 320) by 18; the model keeps the numerator and
\* Q = 2^HalfBits sub-units so that the smoothing's halving stays exact.
Q == 2 ^ HalfBits
signed16(lsbyte, msbyte) == (Xor80(msbyte) * 256 + lsbyte) - 32768
temperature(lsbyte, msbyte) == (signed16(lsbyte, msbyte) - 320) * Q

Sentinel == <<254, 127, 254, 127>>
ValidPacket_length(data) == Len(data) >= 12

\* not (len(data) < 12 or data[8:12] != [0xFE,0x7F,0xFE,0x7F])
ValidPacket(data) ==
  Len(data) >= 12 /\ SubSeq(data, 9, 12) = Sentinel

t4vec(data) == [ i \in 0 .. 3 |-> temperature(data[2 * i + 1], data[2 * i + 2]) ]

Abs(x) == IF x < 0 THEN 0 - x ELSE x

\* abs(value - vlast) > 1.5 (any comparison with NaN is false)
BigJump(value, vlast) == vlast # NaN /\ Abs(value - vlast) * 2 > 3 * 18 * Q

\* one turn of the loop of update_temperatures on channel c
UpdateChannel(reg, c, value) ==
  LET vlast == reg.thermostamp[c]
      redundant == reg.thermocount[c]
  IN IF redundant # 0 /\ redundant < MAXWAIT
        /\ (value = vlast \/ value = reg.thermofilter[c])
     THEN reg
     ELSE LET nv == IF BigJump(value, vlast) THEN (value + vlast) \div 2 ELSE value
          IN [ thermostamp |-> [reg.thermostamp EXCEPT ![c] = nv],
               thermofilter |-> [reg.thermofilter EXCEPT ![c] = nv],
               thermocount |-> IF reg.stamp THEN reg.thermocount
                               ELSE [reg.thermocount EXCEPT ![c] = 0],
               stamp |-> TRUE ]

RECURSIVE UpdateFrom(_, _, _, _)
UpdateFrom(reg, offset, vec, i) ==
  IF i > 3 THEN reg
  ELSE UpdateFrom(UpdateChannel(reg, offset + i, vec[i]), offset, vec, i + 1)

Register == [ thermostamp |-> thermostamp, thermofilter |-> thermofilter,
              thermocount |-> thermocount, stamp |-> stamp ]

\* update_temperatures(obj_path, data) on allocator state al: the register
\* afterwards.  A rejected packet returns; a path that is no key of
\* allocated_offsets raises KeyError and the offset 1e9 raises on the first
\* index, both before any write.
update_temperatures(reg, al, p, data) ==
  IF ~ValidPacket(data) THEN reg
  ELSE IF al[p] = NoOffset \/ al[p] + 3 >= NCHAN THEN reg
  ELSE UpdateFrom(reg, al[p], t4vec(data), 0)

\* ------------------------------------------------------------ logger
bump_unclamped(n) == n + 1

\* min(thermocount[i] + 1, MAXWAIT)
bump(n) == IF n + 1 < MAXWAIT THEN n + 1 ELSE MAXWAIT

\* logger() run without interruption: the register afterwards.  The stall
\* branch walks gatt_services, which nothing fills: it does nothing.
logger_run(reg) ==
  IF reg.stamp
  THEN [reg EXCEPT !.stamp = FALSE,
                   !.thermocount = [ c \in 0 .. NCHAN - 1 |-> bump(reg.thermocount[c]) ]]
  ELSE reg

\* ------------------------------------------------------------ threads
\* held: the offset dev_path held when teardown_device began (history);
\* failed: the bus calls of this teardown that raised so far (history)
Idle == [ fn |-> "idle", p |-> 0, o |-> 0, pc |-> "none", bl |-> <<>>, held |-> NoOffset,
          failed |-> {} ]

Call(fn, p, o, pc, bl) ==
  [ fn |-> fn, p |-> p, o |-> o, pc |-> pc, bl |-> bl, held |-> NoOffset, failed |-> {} ]

\* the device-side state, as one value for the code segments below
Dev ==
  [ inkbirds |-> inkbirds, obj |-> obj, al |-> allocated_offsets, fr |-> free_offsets,
    temperatures |-> temperatures, commands |-> commands, batteries |-> batteries,
    bind |-> bind, subs |-> subs, notifying |-> notifying, recording |-> recording ]

\* what a code segment leaves: the state, the bus call the thread then
\* blocks in (Idle: the function returned) and whether it raised
Ret(s, f) == [ s |-> s, f |-> f, exc |-> FALSE ]
Raise(s) == [ s |-> s, f |-> Idle, exc |-> TRUE ]

\* ------------------------------------------------------------ pseudo-pairing
\* the except branch of run_pseudo_pairing
PairFail(s, o) == Ret([s EXCEPT !.obj = schedule_retry(s.obj, o)], Idle)

\* the end of the try block: transition(ACTIVE), retry_backoff = INITIAL_BACKOFF
PairSucceed(s, o) ==
  Ret([s EXCEPT !.obj = [transition(s.obj, o, "ACTIVE") EXCEPT
                            ![o].retry_backoff = INITIAL_BACKOFF, ![o].nsched = 0]],
      Idle)

\* bind_notify(proxy, cb, path): connect the handler, then StartNotify
Connected(sb, p, kind) ==
  IF kind = "temp" THEN [sb EXCEPT ![p] = Min(sb[p] + 1, 2)] ELSE sb

\* the flush of the bindings still to do
PairFlush(s, p, o, bl) ==
  IF bl = <<>> THEN PairSucceed(s, o)
  ELSE Ret([s EXCEPT !.subs = Connected(s.subs, p, Head(bl))], Call("pair", p, o, "Bind", bl))

\* a write to commands[obj_path]: KeyError when the handle is gone
PairWrite(s, p, o, pc) ==
  IF p \in s.commands THEN Ret(s, Call("pair", p, o, pc, <<>>)) ELSE PairFail(s, o)

\* StartNotify() on the characteristic of this kind returned
Started(s, p, kind) ==
  IF s.recording THEN [s EXCEPT !.notifying = [@ EXCEPT ![p] = @ \cup {kind}]] ELSE s

\* StopNotify() on the characteristic of this kind was called
Stopped(s, p, kind) ==
  IF s.recording THEN [s EXCEPT !.notifying = [@ EXCEPT ![p] = @ \ {kind}]] ELSE s

PairAfter_early(s, f, ok) ==
  IF ~ok THEN PairFail(s, f.o)
  ELSE CASE f.pc = "StartNotify" -> PairSucceed(Started(s, f.p, "temp"), f.o)
         [] f.pc = "Kickoff" -> PairWrite(s, f.p, f.o, "Init1")
         [] f.pc = "Init1" -> PairWrite(s, f.p, f.o, "Init2")
         [] f.pc = "Init2" -> PairWrite(s, f.p, f.o, "Init3")
         [] f.pc = "Init3" -> PairFlush(s, f.p, f.o, s.bind[f.p])
         [] OTHER -> PairFlush(Started(s, f.p, Head(f.bl)), f.p, f.o, Tail(f.bl))

\* run_pseudo_pairing from the call f.pc on, which returned (ok) or raised
PairAfter(s, f, ok) ==
  IF ~ok THEN PairFail(s, f.o)
  ELSE CASE f.pc = "StartNotify" -> PairWrite(Started(s, f.p, "temp"), f.p, f.o, "Kickoff")
         [] f.pc = "Kickoff" -> PairWrite(s, f.p, f.o, "Init1")
         [] f.pc = "Init1" -> PairWrite(s, f.p, f.o, "Init2")
         [] f.pc = "Init2" -> PairWrite(s, f.p, f.o, "Init3")
         [] f.pc = "Init3" -> PairFlush(s, f.p, f.o, s.bind[f.p])
         [] OTHER -> PairFlush(Started(s, f.p, Head(f.bl)), f.p, f.o, Tail(f.bl))

\* run_pseudo_pairing(obj_path) up to its first bus call
run_pseudo_pairing(s, p) ==
  LET o == s.inkbirds[p]
  IN IF o = 0 \/ ~can_act(s.obj, o, "CONNECTED") THEN Ret(s, Idle)
     ELSE IF p \in s.temperatures THEN Ret(s, Call("pair", p, o, "StartNotify", <<>>))
     ELSE PairFail(s, o)

\* retry_pseudo_pairing(obj_path): the timer's callback
retry_pseudo_pairing(s, p) ==
  LET o == s.inkbirds[p]
  IN IF o # 0 /\ can_act(s.obj, o, "CONNECTED") THEN run_pseudo_pairing(s, p)
     ELSE Ret(s, Idle)

\* ------------------------------------------------------------ teardown
\* the StopNotify loop: the next of temperatures, commands, batteries (1, 2,
\* 3) after the k-th that holds dev_path, else Disconnect
NextStop(s, p, k) ==
  IF k < 1 /\ p \in s.temperatures THEN "StopNotify1"
  ELSE IF k < 2 /\ p \in s.commands THEN "StopNotify2"
  ELSE IF k < 3 /\ p \in s.batteries THEN "StopNotify3"
  ELSE "Disconnect"

\* a teardown without the early return for an unknown path: it goes on to
\* RemoveDevice
teardown_unguarded(s, p) ==
  LET o == s.inkbirds[p]
  IN IF o = 0 THEN Ret(s, Call("td", p, 0, "RemoveDevice", <<>>))
     ELSE LET s1 == [s EXCEPT !.obj = cancel_retry(transition(s.obj, o, "TEARDOWN"), o)]
          IN Ret(s1, [Call("td", p, o, NextStop(s1, p, 0), <<>>) EXCEPT !.held = s.al[p]])

\* teardown_device(dev_path) up to its first bus call
teardown_device(s, p) ==
  LET o == s.inkbirds[p]
  IN IF o = 0 THEN Ret(s, Idle)
     ELSE LET s1 == [s EXCEPT !.obj = cancel_retry(transition(s.obj, o, "TEARDOWN"), o)]
          IN Ret(s1, [Call("td", p, o, NextStop(s1, p, 0), <<>>) EXCEPT !.held = s.al[p]])

\* lines 133-138: drop the handles and the bindings, deallocate
DropHandles(s, p) ==
  LET d == deallocate(s.al, s.fr, p)
  IN [s EXCEPT !.temperatures = @ \ {p}, !.commands = @ \ {p}, !.batteries = @ \ {p},
               !.bind = [@ EXCEPT ![p] = <<>>], !.al = d[1], !.fr = d[2]]

\* teardown_device from the call f.pc on, once that call is over
TeardownOn(s, f) ==
  CASE f.pc = "StopNotify1" ->
         Ret(Stopped(s, f.p, "temp"), [f EXCEPT !.pc = NextStop(s, f.p, 1)])
    [] f.pc = "StopNotify2" ->
         Ret(Stopped(s, f.p, "cmd"), [f EXCEPT !.pc = NextStop(s, f.p, 2)])
    [] f.pc = "StopNotify3" ->
         Ret(Stopped(s, f.p, "batt"), [f EXCEPT !.pc = NextStop(s, f.p, 3)])
    [] f.pc = "Disconnect" -> Ret(DropHandles(s, f.p), [f EXCEPT !.pc = "RemoveDevice"])
    [] OTHER -> IF s.inkbirds[f.p] = 0 THEN Raise(s)
                ELSE Ret([s EXCEPT !.inkbirds = [@ EXCEPT ![f.p] = 0],
                                   !.notifying = [@ EXCEPT ![f.p] = {}]], Idle)

\* the bus call behind a pc
BusCall(pc) ==
  IF pc \in {"StopNotify1", "StopNotify2", "StopNotify3"} THEN "StopNotify" ELSE pc

\* the except branches of teardown_device: the error is printed or passed over
Swallow(s, f, ok) ==
  IF ~ok /\ s.recording THEN [f EXCEPT !.failed = @ \cup {BusCall(f.pc)}] ELSE f

\* a teardown that a bus error ends
TeardownAfter_abort(s, f, ok) == IF ok THEN TeardownOn(s, f) ELSE Raise(s)

\* teardown_device from the call f.pc on, which returned (ok) or raised
TeardownAfter(s, f, ok) == TeardownOn(s, Swallow(s, f, ok))

\* ------------------------------------------------------------ discovery
\* the object ids in use
Live(ob) == { o \in ObjIds : ob[o].state # "FREE" }

FreshId(ob) == CHOOSE o \in ObjIds \ Live(ob) : \A w \in ObjIds \ Live(ob) : o <= w

\* interface_added_callback(obj_path, obj_dict) for a device interface with a
\* matching name, up to Connect()
interface_added_callback(s, p) ==
  LET known == s.inkbirds[p] # 0
      o == IF known THEN s.inkbirds[p] ELSE FreshId(s.obj)
      s1 == IF known THEN s
            ELSE [s EXCEPT !.obj = [@ EXCEPT ![o] = NewDevice(p)],
                           !.inkbirds = [@ EXCEPT ![p] = o]]
  IN IF can_act(s1.obj, o, "DISCONNECTED")
     THEN Ret([s1 EXCEPT !.obj = transition(@, o, "CONNECTING")],
              Call("ia", p, o, "Connect", <<>>))
     ELSE Ret(s1, Idle)

\* Connect() and Trusted = True returned (ok) or one of them raised
ConnectAfter(s, f, ok) ==
  Ret([s EXCEPT !.obj = transition(@, f.o, IF ok THEN "CONNECTED" ELSE "DISCONNECTED")],
      Idle)

\* services_resolved_callback
services_resolved_callback(s, p, resolved) ==
  LET o == s.inkbirds[p]
  IN IF o = 0 THEN Ret(s, Idle)
     ELSE IF resolved
     THEN run_pseudo_pairing([s EXCEPT !.obj = transition(@, o, "CONNECTED")], p)
     ELSE teardown_device(s, p)

\* interfaces_removed_callback for the device interface
interfaces_removed_callback(s, p) ==
  IF s.inkbirds[p] # 0 THEN teardown_device(s, p) ELSE Ret(s, Idle)

\* the bindings queued for p
Bound(s, p) == { s.bind[p][i] : i \in 1 .. Len(s.bind[p]) }

\* the characteristic a path announces next, of the first n kinds: ff01,
\* ff02, 2a19, an auxiliary ff0x, in this order
NextKindOf(s, p, n) ==
  IF p \notin s.temperatures THEN "temp"
  ELSE IF p \notin s.commands /\ n >= 2 THEN "cmd"
  ELSE IF p \notin s.batteries /\ n >= 3 THEN "batt"
  ELSE IF "extra" \notin Bound(s, p) /\ n >= 4 THEN "extra"
  ELSE "none"

NextKind(s, p) == NextKindOf(s, p, NumKinds)

\* the GATT-characteristic branch of interface_added_callback: keep the
\* handle, queue the binding
characteristic_added(s, p, kind) ==
  [s EXCEPT !.temperatures = IF kind = "temp" THEN @ \cup {p} ELSE @,
            !.commands = IF kind = "cmd" THEN @ \cup {p} ELSE @,
            !.batteries = IF kind = "batt" THEN @ \cup {p} ELSE @,
            !.bind = [@ EXCEPT ![p] = Append(@, kind)]]

\* a callback that never asks for a slot
temperature_callback_noalloc(s, p) == s

\* temperature_callback up to update_temperatures
temperature_callback(s, p) ==
  LET o == s.inkbirds[p]
  IN IF o # 0 /\ s.al[p] = NoOffset /\ can_act(s.obj, o, "ACTIVE")
     THEN LET a == allocate(s.al, s.fr, p) IN [s EXCEPT !.al = a[1], !.fr = a[2]]
     ELSE s

\* ------------------------------------------------------------ state machine
GoodPacket == <<60, 129, 90, 129, 120, 129, 150, 129, 254, 127, 254, 127>>
BadPacket == <<60, 129, 90, 129, 120, 129, 150, 129, 0, 0, 0, 0>>
Packets == { GoodPacket, BadPacket }

\* a valid payload whose first channel has the low byte lo
PacketOf(lo) == <<lo, 129, 90, 129, 120, 129, 150, 129, 254, 127, 254, 127>>
NearPacket == PacketOf(70)
ShortPacket == <<60, 129, 90, 129, 120, 129, 150, 129, 254, 127, 254>>

NoSweep == [ phase |-> "idle", managed |-> {}, todo |-> {} ]
LoggerIdle == [ pc |-> "idle", sample |-> <<>> ]
NoCycles == [ n |-> 0, fed |-> FALSE, stamped |-> {} ]
NoBytes == [ lo |-> 0, hi |-> 0, done |-> FALSE, i |-> 0, signed |-> 0, t4 |-> <<>> ]
DeadSweep == [ phase |-> "dead", managed |-> {}, todo |-> {} ]

\* the state after the module is loaded; the histories notifying and failed
\* are recorded in the behaviours that start with recording on
Loaded ==
  /\ packet = <<>>
  /\ gatt_services = {}
  /\ inkbirds = [ p \in AllPaths |-> 0 ]
  /\ obj = [ o \in ObjIds |-> NoObj ]
  /\ allocated_offsets = [ p \in AllPaths |-> NoOffset ]
  /\ free_offsets = { << SlotKey(k), k >> : k \in FreeInit }
  /\ temperatures = {}
  /\ commands = {}
  /\ batteries = {}
  /\ bind = [ p \in AllPaths |-> <<>> ]
  /\ subs = [ p \in AllPaths |-> 0 ]
  /\ notifying = [ p \in AllPaths |-> {} ]
  /\ thermostamp = [ c \in 0 .. NCHAN - 1 |-> NaN ]
  /\ thermofilter = [ c \in 0 .. NCHAN - 1 |-> 0 ]
  /\ thermocount = [ c \in 0 .. NCHAN - 1 |-> 0 ]
  /\ stamp = FALSE
  /\ frame = [ t \in Threads |-> Idle ]
  /\ sweep = NoSweep
  /\ handled = 0
  /\ logger = LoggerIdle
  /\ cycles = NoCycles
  /\ last = [ p \in AllPaths |-> NoOffset ]

InitWith(rec) == Loaded /\ recording = rec /\ decoded = NoBytes

Init == InitWith(FALSE)

InitRecording == InitWith(TRUE)

\* an object nothing refers to any more is collected: the map, a running
\* call and a started timer (whose thread outlives the object) keep it
Kept(s, fs, o) ==
  \/ \E p \in AllPaths : s.inkbirds[p] = o
  \/ \E t \in Threads : fs[t].o = o
  \/ s.obj[o].timers > 0

CommitDev(s, fs) ==
  /\ inkbirds' = s.inkbirds
  /\ obj' = [ o \in ObjIds |-> IF Kept(s, fs, o) THEN s.obj[o] ELSE NoObj ]
  /\ allocated_offsets' = s.al
  /\ free_offsets' = s.fr
  /\ temperatures' = s.temperatures
  /\ commands' = s.commands
  /\ batteries' = s.batteries
  /\ bind' = s.bind
  /\ subs' = s.subs
  /\ notifying' = s.notifying
  /\ frame' = fs

Commit(s, fs) == CommitDev(s, fs) /\ handled' = 0

\* a step of thread t that leaves r; an exception that escapes scan_dbus
\* ends the sweep thread before it re-arms its timer
Leave(t, r) ==
  /\ Commit(r.s, [frame EXCEPT ![t] = r.f])
  /\ sweep' = IF r.exc /\ t = ST THEN DeadSweep ELSE sweep
  /\ UNCHANGED << regvars, auxvars >>

\* a record can be created for p within the model's bound on objects
CanAdd(p, limit) == inkbirds[p] # 0 \/ Cardinality(Live(obj)) < limit

\* ---- the loop thread: one bus signal at a time
EvInterfaceAdded(p, limit) ==
  /\ frame[LT] = Idle
  /\ CanAdd(p, limit)
  /\ Leave(LT, interface_added_callback(Dev, p))

EvInterfaceRemoved(p) ==
  /\ frame[LT] = Idle
  /\ inkbirds[p] # 0
  /\ Leave(LT, interfaces_removed_callback(Dev, p))

EvServicesResolved(p, resolved) ==
  /\ frame[LT] = Idle
  /\ inkbirds[p] # 0
  /\ Leave(LT, services_resolved_callback(Dev, p, resolved))

\* a characteristic of a known device appears; not while a flush walks the
\* device's binding list
EvCharacteristicOf(p, n) ==
  /\ frame[LT] = Idle
  /\ inkbirds[p] # 0
  /\ NextKindOf(Dev, p, n) # "none"
  /\ \A t \in Threads : ~(frame[t].fn = "pair" /\ frame[t].p = p /\ frame[t].pc = "Bind")
  /\ Leave(LT, Ret(characteristic_added(Dev, p, NextKindOf(Dev, p, n)), Idle))

EvCharacteristic(p) == EvCharacteristicOf(p, NumKinds)

\* a temperature notification reaches every connected handler
Ingest(s, reg, p, data) ==
  LET s1 == temperature_callback(s, p)
  IN << s1, update_temperatures(reg, s1.al, p, data) >>

Notify(p, data) ==
  /\ frame[LT] = Idle
  /\ subs[p] > 0
  /\ LET once == Ingest(Dev, Register, p, data)
         all == IF subs[p] > 1 THEN Ingest(once[1], once[2], p, data) ELSE once
     IN /\ CommitDev(all[1], frame)
        /\ thermostamp' = all[2].thermostamp
        /\ thermofilter' = all[2].thermofilter
        /\ thermocount' = all[2].thermocount
        /\ stamp' = all[2].stamp
  /\ handled' = p
  /\ UNCHANGED sweep

EvTemperature(p, data) == Notify(p, data) /\ UNCHANGED auxvars

\* a notification is delivered and its payload remembered
Deliver(p, data) ==
  /\ Notify(p, data)
  /\ packet' = data
  /\ UNCHANGED << logger, cycles, decoded, last, recording, gatt_services >>

\* ---- the logger thread, one statement at a time
\* if stamp: (a tick that finds stamp false only re-arms the timer)
LoggerTest ==
  /\ logger.pc = "idle"
  /\ logger' = IF stamp THEN [logger EXCEPT !.pc = "sample"] ELSE logger
  /\ UNCHANGED << devvars, regvars, cycles, decoded, last, recording, packet, gatt_services >>

\* sample = enumerate(list(thermostamp))
LoggerSample ==
  /\ logger.pc = "sample"
  /\ logger' = [ pc |-> "clear", sample |-> thermostamp ]
  /\ UNCHANGED << devvars, regvars, cycles, decoded, last, recording, packet, gatt_services >>

\* stamp, laststamp = False, t
LoggerClear ==
  /\ logger.pc = "clear"
  /\ stamp' = FALSE
  /\ logger' = [ pc |-> "count", sample |-> <<>> ]
  /\ UNCHANGED << devvars, thermostamp, thermofilter, thermocount,
                  cycles, decoded, last, recording, packet, gatt_services >>

\* the loop over thermocount; the timer is re-armed
LoggerCount ==
  /\ logger.pc = "count"
  /\ thermocount' = [ c \in 0 .. NCHAN - 1 |-> bump(thermocount[c]) ]
  /\ logger' = LoggerIdle
  /\ UNCHANGED << devvars, thermostamp, thermofilter, stamp,
                  cycles, decoded, last, recording, packet, gatt_services >>

\* the stall branch of logger(): stamp is false and the last stamp is old;
\* temperatures[obj_path].ReadValue() for every service marked True.  A
\* path that temperatures no longer holds raises KeyError and a ReadValue
\* may raise (ok false); nothing catches either, so the logger thread ends
\* before it re-arms its timer.
LoggerStall(ok) ==
  /\ logger.pc = "idle"
  /\ ~stamp
  /\ logger' = IF gatt_services = {} \/ (gatt_services \subseteq temperatures /\ ok)
               THEN logger
               ELSE [ pc |-> "dead", sample |-> <<>> ]
  /\ UNCHANGED << devvars, regvars, cycles, decoded, last, recording, packet, gatt_services >>

\* the service of a device whose services are resolved is marked True
MarkReady(p) ==
  /\ p \notin gatt_services
  /\ inkbirds[p] # 0
  /\ p \in temperatures
  /\ obj[inkbirds[p]].state = "ACTIVE"
  /\ gatt_services' = gatt_services \cup {p}
  /\ UNCHANGED << devvars, regvars, logger, cycles, decoded, last, recording, packet >>

\* logger() from its first statement to its last, undisturbed
LoggerRun ==
  /\ logger.pc = "idle"
  /\ stamp' = logger_run(Register).stamp
  /\ thermocount' = logger_run(Register).thermocount
  /\ UNCHANGED << devvars, thermostamp, thermofilter, logger, decoded, last, recording, packet, gatt_services >>

\* ---- a bus call returns
PairReturn(t, ok) ==
  /\ frame[t].fn = "pair"
  /\ Leave(t, PairAfter(Dev, frame[t], ok))

PairStep(t) == \E ok \in BOOLEAN : PairReturn(t, ok)

TeardownStep(t) ==
  /\ frame[t].fn = "td"
  /\ \E ok \in BOOLEAN : Leave(t, TeardownAfter(Dev, frame[t], ok))

ConnectStep(t) ==
  /\ frame[t].fn = "ia"
  /\ \E ok \in BOOLEAN : Leave(t, ConnectAfter(Dev, frame[t], ok))

\* ---- retry timers
\* a started timer of object o fires: its thread t runs the callback
Fired(ob, o) ==
  [ob EXCEPT ![o].timers = @ - 1,
             ![o].retry_timer = IF @ = "Pending" THEN "Dead" ELSE @]

TimerFire(o, t) ==
  /\ obj[o].timers > 0
  /\ frame[t] = Idle
  /\ Leave(t, retry_pseudo_pairing([Dev EXCEPT !.obj = Fired(@, o)], obj[o].path))

\* ---- scan_dbus on the sweep thread
SweepStart ==
  /\ sweep.phase = "idle"
  /\ sweep' = [sweep EXCEPT !.phase = "get"]
  /\ handled' = 0
  /\ UNCHANGED << inkbirds, obj, allocated_offsets, free_offsets, temperatures, commands,
                  batteries, bind, subs, notifying, regvars, frame, auxvars >>

\* GetManagedObjects returns the matching devices M, or raises
SweepEnumerate(M) ==
  /\ sweep.phase = "get"
  /\ sweep' = [ phase |-> "adding", managed |-> M, todo |-> M ]
  /\ handled' = 0
  /\ UNCHANGED << inkbirds, obj, allocated_offsets, free_offsets, temperatures, commands,
                  batteries, bind, subs, notifying, regvars, frame, auxvars >>

SweepFail ==
  /\ sweep.phase = "get"
  /\ sweep' = DeadSweep
  /\ handled' = 0
  /\ UNCHANGED << inkbirds, obj, allocated_offsets, free_offsets, temperatures, commands,
                  batteries, bind, subs, notifying, regvars, frame, auxvars >>

SweepAdd(p, limit) ==
  /\ sweep.phase = "adding"
  /\ frame[ST] = Idle
  /\ p \in sweep.todo
  /\ CanAdd(p, limit)
  /\ Commit(interface_added_callback(Dev, p).s,
            [frame EXCEPT ![ST] = interface_added_callback(Dev, p).f])
  /\ sweep' = [sweep EXCEPT !.todo = @ \ {p}]
  /\ UNCHANGED << regvars, auxvars >>

\* list(inkbirds.keys()) once the enumeration is walked
SweepSnapshot ==
  /\ sweep.phase = "adding"
  /\ frame[ST] = Idle
  /\ sweep.todo = {}
  /\ sweep' = [sweep EXCEPT !.phase = "tearing",
                            !.todo = { p \in AllPaths : inkbirds[p] # 0 /\ p \notin sweep.managed }]
  /\ handled' = 0
  /\ UNCHANGED << inkbirds, obj, allocated_offsets, free_offsets, temperatures, commands,
                  batteries, bind, subs, notifying, regvars, frame, auxvars >>

SweepTear(p) ==
  /\ sweep.phase = "tearing"
  /\ frame[ST] = Idle
  /\ p \in sweep.todo
  /\ Commit(teardown_device(Dev, p).s, [frame EXCEPT ![ST] = teardown_device(Dev, p).f])
  /\ sweep' = [sweep EXCEPT !.todo = @ \ {p}]
  /\ UNCHANGED << regvars, auxvars >>

\* threading.Timer(WATCHTIME, scan_dbus).start()
SweepDone ==
  /\ sweep.phase = "tearing"
  /\ frame[ST] = Idle
  /\ sweep.todo = {}
  /\ sweep' = NoSweep
  /\ handled' = 0
  /\ UNCHANGED << inkbirds, obj, allocated_offsets, free_offsets, temperatures, commands,
                  batteries, bind, subs, notifying, regvars, frame, auxvars >>

Next ==
  \/ \E p \in Paths : EvInterfaceAdded(p, MaxObj)
  \/ \E p \in Paths : EvInterfaceRemoved(p)
  \/ \E p \in Paths, resolved \in BOOLEAN : EvServicesResolved(p, resolved)
  \/ \E p \in Paths : EvCharacteristic(p)
  \/ \E p \in Paths, data \in Packets : EvTemperature(p, data)
  \/ \E t \in Threads : PairStep(t)
  \/ \E t \in Threads : TeardownStep(t)
  \/ \E t \in Threads : ConnectStep(t)
  \/ \E o \in ObjIds, t \in RThreads : TimerFire(o, t)
  \/ SweepStart
  \/ \E M \in SUBSET Paths : SweepEnumerate(M)
  \/ SweepFail
  \/ \E p \in Paths : SweepAdd(p, MaxObj)
  \/ SweepSnapshot
  \/ \E p \in Paths : SweepTear(p)
  \/ SweepDone

Spec == Init /\ [][Next]_vars

\* ------------------------------------------------------------ capacity
\* The bring-up of CapPaths devices one after another on the loop thread,
\* with no other thread running: every event concerns the first path that
\* holds no slot yet, services resolve once per device, pairing meets no bus
\* error (Connect may fail), and every notification is a valid packet.
Frontier(p) ==
  /\ allocated_offsets[p] = NoOffset
  /\ \A q \in 1 .. p - 1 : allocated_offsets[q] # NoOffset

CapSet == 1 .. CapPaths

NoRetry == \A o \in ObjIds : obj'[o].timers = 0

NextCap ==
  \/ \E p \in CapSet : Frontier(p) /\ EvInterfaceAdded(p, CapPaths)
  \/ \E p \in CapSet : Frontier(p) /\ EvCharacteristic(p)
  \/ \E p \in CapSet : Frontier(p) /\ subs[p] = 0 /\ EvServicesResolved(p, TRUE) /\ NoRetry
  \/ \E p \in CapSet : Frontier(p) /\ EvTemperature(p, GoodPacket)
  \/ PairStep(LT) /\ NoRetry
  \/ ConnectStep(LT)

SpecCap == Init /\ [][NextCap]_vars

\* ------------------------------------------------------------ subscriptions
\* One device after another on the loop thread, with every kind of
\* characteristic: discovery, one resolution and pairing without bus error,
\* valid notifications, removal.
SubSet == 1 .. SubPaths

Running(p) == inkbirds[p] # 0 /\ obj[inkbirds[p]].state = "ACTIVE"

InvalidPackets == { BadPacket, ShortPacket }

SubPackets == { GoodPacket, NearPacket } \cup InvalidPackets

NextSub ==
  \/ \E p \in SubSet : EvInterfaceAdded(p, SubPaths)
  \/ \E p \in SubSet : EvCharacteristicOf(p, Len(Kinds))
  \/ \E p \in SubSet : ~Running(p) /\ EvServicesResolved(p, TRUE) /\ NoRetry
  \/ \E p \in SubSet : \E data \in SubPackets : Deliver(p, data)
  \/ \E p \in SubSet : EvInterfaceRemoved(p)
  \/ PairStep(LT) /\ NoRetry
  \/ ConnectStep(LT)
  \/ TeardownStep(LT)

SpecSub == InitRecording /\ [][NextSub]_vars

\* ------------------------------------------------------------ lost devices
\* Discovery, removal and the sweep for TearPaths devices on the loop thread
\* and the sweep thread; services never resolve, so no pairing runs.
TearSet == 1 .. TearPaths

NextTear ==
  \/ \E p \in TearSet : EvInterfaceAdded(p, TearPaths)
  \/ \E p \in TearSet : EvInterfaceRemoved(p)
  \/ \E p \in TearSet : EvServicesResolved(p, FALSE)
  \/ \E t \in {LT, ST} : ConnectStep(t)
  \/ \E t \in {LT, ST} : TeardownStep(t)
  \/ SweepStart
  \/ \E M \in SUBSET TearSet : SweepEnumerate(M)
  \/ \E p \in TearSet : SweepAdd(p, TearPaths)
  \/ SweepSnapshot
  \/ \E p \in TearSet : SweepTear(p)
  \/ SweepDone

SpecTear == Init /\ [][NextTear]_vars

\* ---- the register under notifications and the logger thread: one device
\* brought up on the loop thread, two valid payloads that differ in the
\* first channel
RegSet == 1 .. RegPaths

RegPackets == { GoodPacket, NearPacket }

NextReg ==
  \/ \E p \in RegSet : inkbirds[p] = 0 /\ subs[p] = 0 /\ EvInterfaceAdded(p, MaxObj)
  \/ \E p \in RegSet : EvCharacteristic(p)
  \/ \E p \in RegSet : ~Running(p) /\ EvServicesResolved(p, TRUE) /\ NoRetry
  \/ ConnectStep(LT)
  \/ PairStep(LT) /\ NoRetry
  \/ \E p \in RegSet : \E data \in RegPackets : EvTemperature(p, data)
  \/ LoggerTest
  \/ LoggerSample
  \/ LoggerClear
  \/ LoggerCount

SpecReg == Init /\ [][NextReg]_vars

\* ---- feed/log cycles: one device is brought up; then each cycle delivers
\* the payload of the first cycle again and runs the logger once
FeedPackets == { PacketOf(60), PacketOf(70), PacketOf(80) }

Feed(p, data) ==
  /\ Running(p)
  /\ ~cycles.fed
  /\ cycles.n < Cycles
  /\ cycles.n = 0 \/ data = packet
  /\ Notify(p, data)
  /\ packet' = data
  /\ cycles' = [cycles EXCEPT !.fed = TRUE,
                              !.stamped = IF stamp' THEN @ \cup {cycles.n + 1} ELSE @]
  /\ UNCHANGED << logger, decoded, last, recording, gatt_services >>

Tick ==
  /\ cycles.fed
  /\ LoggerRun
  /\ cycles' = [cycles EXCEPT !.fed = FALSE, !.n = @ + 1]

NextCycle ==
  \/ \E p \in RegSet : inkbirds[p] = 0 /\ subs[p] = 0 /\ EvInterfaceAdded(p, MaxObj)
  \/ \E p \in RegSet : EvCharacteristic(p)
  \/ \E p \in RegSet : ~Running(p) /\ EvServicesResolved(p, TRUE) /\ NoRetry
  \/ ConnectStep(LT)
  \/ PairStep(LT) /\ NoRetry
  \/ \E p \in RegSet : \E data \in FeedPackets : Feed(p, data)
  \/ Tick

SpecCycle == Init /\ [][NextCycle]_vars

\* ---- the decoder on every byte pair, sent on each of the four channels
Bytes == 0 .. 255

\* a valid payload with lo, hi on channel i and 3C 81 on the others
PacketAt(i, lo, hi) ==
  [ k \in 1 .. 12 |->
      IF k = 2 * i + 1 THEN lo
      ELSE IF k = 2 * i + 2 THEN hi
      ELSE GoodPacket[IF k <= 8 THEN 2 - (k % 2) ELSE k] ]

InitDecode ==
  /\ Loaded
  /\ recording = FALSE
  /\ \E lo \in Bytes : \E hi \in Bytes : decoded = [NoBytes EXCEPT !.lo = lo, !.hi = hi]

Decode(i) ==
  /\ ~decoded.done
  /\ decoded' = [decoded EXCEPT !.done = TRUE, !.i = i,
                                !.signed = signed16(decoded.lo, decoded.hi),
                                !.t4 = t4vec(PacketAt(i, decoded.lo, decoded.hi))]
  /\ UNCHANGED << devvars, regvars, logger, cycles, last, recording, packet, gatt_services >>

NextDecode == \E i \in 0 .. 3 : Decode(i)

SpecDecode == InitDecode /\ [][NextDecode]_vars

\* ---- the allocator alone: paths without an offset allocate, paths with
\* one deallocate
AllocSet == 1 .. AllocPaths

DoAllocate(p) ==
  /\ allocated_offsets[p] = NoOffset
  /\ LET r == allocate(allocated_offsets, free_offsets, p)
     IN /\ allocated_offsets' = r[1]
        /\ free_offsets' = r[2]
        /\ last' = [ q \in AllPaths |->
                       IF q # p /\ last[q] = r[1][p] THEN NoOffset ELSE last[q] ]
  /\ UNCHANGED << inkbirds, obj, temperatures, commands, batteries, bind, subs, notifying,
                  regvars, frame, sweep, handled, logger, cycles, decoded, recording, packet, gatt_services >>

DoDeallocate(p) ==
  /\ allocated_offsets[p] # NoOffset
  /\ LET r == deallocate(allocated_offsets, free_offsets, p)
     IN /\ allocated_offsets' = r[1]
        /\ free_offsets' = r[2]
  /\ last' = [last EXCEPT ![p] = allocated_offsets[p]]
  /\ UNCHANGED << inkbirds, obj, temperatures, commands, batteries, bind, subs, notifying,
                  regvars, frame, sweep, handled, logger, cycles, decoded, recording, packet, gatt_services >>

NextAlloc ==
  \/ \E p \in AllocSet : DoAllocate(p)
  \/ \E p \in AllocSet : DoDeallocate(p)

SpecAlloc == Init /\ [][NextAlloc]_vars

\* ---- the logger with its stall branch: one device is brought up and torn
\* down on the loop thread, its service is marked ready
StallSet == 1 .. StallPaths

NextStall ==
  \/ \E p \in StallSet : inkbirds[p] = 0 /\ subs[p] = 0 /\ EvInterfaceAdded(p, MaxObj)
  \/ \E p \in StallSet : EvCharacteristicOf(p, 3)
  \/ \E p \in StallSet : ~Running(p) /\ EvServicesResolved(p, TRUE) /\ NoRetry
  \/ \E p \in StallSet : EvInterfaceRemoved(p)
  \/ ConnectStep(LT)
  \/ PairStep(LT) /\ NoRetry
  \/ TeardownStep(LT)
  \/ \E p \in StallSet : MarkReady(p)
  \/ \E p \in StallSet : EvTemperature(p, GoodPacket)
  \/ \E ok \in BOOLEAN : LoggerStall(ok)
  \/ LoggerRun /\ UNCHANGED cycles

SpecStall == Init /\ [][NextStall]_vars

\* ---- pseudo-pairing and its retries with no teardown: one device, its
\* events on the loop thread, the retry timers; a bus call of the pairing
\* raises only while fewer than MaxSched retries were scheduled in a row
PairSet == 1 .. PairPaths

PairThreads == {LT} \cup RThreads

PairTry(t) ==
  \/ PairReturn(t, TRUE)
  \/ /\ frame[t].fn = "pair"
     /\ obj[frame[t].o].nsched < MaxSched
     /\ PairReturn(t, FALSE)

NextPair ==
  \/ \E p \in PairSet : inkbirds[p] = 0 /\ EvInterfaceAdded(p, MaxObj)
  \/ \E p \in PairSet : EvCharacteristic(p)
  \/ \E p \in PairSet : EvServicesResolved(p, TRUE)
  \/ \E p \in PairSet : EvTemperature(p, GoodPacket)
  \/ ConnectStep(LT)
  \/ \E t \in PairThreads : PairTry(t)
  \/ \E o \in ObjIds, t \in RThreads : TimerFire(o, t)

SpecPair == Init /\ [][NextPair]_vars

\* the same under fair scheduling: a bus call in flight returns, a started
\* timer fires
SpecPairFair ==
  /\ SpecPair
  /\ \A t \in PairThreads : WF_vars(PairTry(t))
  /\ \A t \in RThreads : WF_vars(\E o \in ObjIds : TimerFire(o, t))

\* ------------------------------------------------------------ properties
Known(p) == inkbirds[p] # 0
Allocated(p) == allocated_offsets[p] # NoOffset
Active(p) == Known(p) /\ obj[inkbirds[p]].state = "ACTIVE"
AllocatedValues == { allocated_offsets[p] : p \in { q \in AllPaths : Allocated(q) } }

\* C1: the offsets in allocated_offsets and those in free_offsets are
\* together exactly {0,4,8,12,16,20}, none is in both, and at most six paths
\* are allocated.
C1_AllocatorPartition ==
  /\ AllocatedValues \cup FreeValues(free_offsets) = FreeInit
  /\ AllocatedValues \cap FreeValues(free_offsets) = {}
  /\ Cardinality({ p \in AllPaths : Allocated(p) }) <= 6

\* C2: no two distinct paths hold the same offset, so their 4-channel
\* ranges never overlap.
C2_OffsetsDisjoint ==
  \A p, q \in AllPaths :
    (p # q /\ Allocated(p) /\ Allocated(q))
      => (allocated_offsets[p] + 3 < allocated_offsets[q]
          \/ allocated_offsets[q] + 3 < allocated_offsets[p])

\* C3: when teardown_device(p) completes for a path that held a slot as it
\* began, p is no key of allocated_offsets, p is not in the device map and
\* the offset it held is free.
C3_AfterTeardown ==
  [][ \A t \in Threads :
        (frame[t].fn = "td" /\ frame[t].pc = "RemoveDevice" /\ frame[t].held # NoOffset
         /\ frame'[t].fn = "idle")
          => (/\ allocated_offsets'[frame[t].p] = NoOffset
              /\ inkbirds'[frame[t].p] = 0
              /\ frame[t].held \in FreeValues(free_offsets')) ]_vars

\* C4: teardown_device called again for a path whose teardown has completed
\* changes nothing and issues no StopNotify, Disconnect or RemoveDevice (the
\* sweep calls it for a path of its snapshot that was torn down meanwhile).
SecondTeardown(p) ==
  /\ sweep.phase = "tearing"
  /\ frame[ST] = Idle
  /\ p \in sweep.todo
  /\ ~Known(p)

C4_TeardownTwice ==
  [][ \A p \in AllPaths :
        (SecondTeardown(p) /\ sweep'.todo = sweep.todo \ {p})
          => (/\ frame'[ST] = Idle
              /\ UNCHANGED << inkbirds, obj, allocated_offsets, free_offsets, temperatures,
                              commands, batteries, bind, subs, regvars >>) ]_vars

C4_SecondTeardownReached ==
  \E p \in AllPaths :
    /\ SecondTeardown(p)
    /\ \A t \in Threads : frame[t] = Idle
    /\ \A o \in ObjIds : obj[o].timers = 0

\* C5 as stated: every Active device record has an entry in allocated_offsets.
C5_ActiveHasSlot == \A p \in AllPaths : Active(p) => Allocated(p)

\* C5 as amended: when temperature_callback has handled a notification for
\* a device whose record is Active, the device has an entry in
\* allocated_offsets.
C5_ActiveFedHasSlot ==
  \A p \in AllPaths : (handled = p /\ Active(p)) => Allocated(p)

C5_ActiveFedReached ==
  \E p \in AllPaths : handled = p /\ Active(p) /\ allocated_offsets[p] \in FreeInit

\* C6: with no free offset, no path gains an entry of allocated_offsets
\* (allocate refuses) and the allocator is left as it was.
C6_NoCapacityRefused ==
  [][ free_offsets = {}
        => (allocated_offsets' = allocated_offsets /\ free_offsets' = free_offsets) ]_vars

\* C7: a transport error in Connect or in a step of pseudo-pairing leaves
\* the record in the device map with exactly one retry timer pending.
ConnectFailed(o) == obj[o].state = "CONNECTING" /\ obj'[o].state = "DISCONNECTED"

PairingFailed(t) ==
  /\ frame[t].fn = "pair"
  /\ frame'[t].fn = "idle"
  /\ obj'[frame[t].o].nsched # 0

RetryLeft(o) ==
  /\ obj'[o].timers = 1
  /\ obj'[o].retry_timer = "Pending"
  /\ inkbirds'[obj[o].path] = inkbirds[obj[o].path]

C7_ErrorLeavesRetry ==
  [][ /\ \A o \in ObjIds : ConnectFailed(o) => RetryLeft(o)
      /\ \A t \in Threads : PairingFailed(t) => RetryLeft(frame[t].o) ]_vars

\* C8: the k-th retry scheduled since the last success or teardown is delayed
\* by min(INITIAL_BACKOFF * 2^(k-1), MAX_BACKOFF); no delay exceeds
\* MAX_BACKOFF; after a success the count starts again, at INITIAL_BACKOFF.
C8_BackoffSchedule ==
  [][ \A o \in ObjIds :
        /\ (obj[o].state # "FREE" /\ obj'[o].nsched = obj[o].nsched + 1)
             => (/\ obj'[o].retry_timer = "Pending"
                 /\ obj'[o].interval = Min(INITIAL_BACKOFF * 2 ^ obj[o].nsched, MAX_BACKOFF))
        /\ obj[o].interval <= MAX_BACKOFF
        /\ (obj[o].retry_timer = "Pending" /\ obj[o].nsched = MaxSched)
             => obj[o].interval = MAX_BACKOFF ]_vars

C8_CappedDelayReached ==
  \E o \in ObjIds :
    /\ obj[o].retry_timer = "Pending"
    /\ obj[o].nsched = MaxSched
    /\ obj[o].interval = MAX_BACKOFF

C10_NoRetryAfterTeardown ==
  [][ \A t \in RThreads :
        (frame[t].fn = "pair" /\ frame'[t] # frame[t] /\ inkbirds[frame[t].p] = 0)
          => obj'[frame[t].o].timers = 0 ]_vars

\* C11: while a teardown of path p is in flight on one thread, no step of
\* another thread changes p's record, handles, bindings or slot.
PathState(p) ==
  << inkbirds[p], allocated_offsets[p], p \in temperatures, p \in commands,
     p \in batteries, bind[p] >>

C11_TeardownAtomic ==
  [][ \A t \in Threads :
        (frame[t].fn = "td" /\ frame'[t] = frame[t])
          => (/\ PathState(frame[t].p)' = PathState(frame[t].p)
              /\ obj'[frame[t].o] = obj[frame[t].o]) ]_vars

\* C12: every teardown that begins ends with the record removed, and a
\* sweep tears down every path of its snapshot that its enumeration lacks:
\* it does not end while such a path is still to be visited and in the map.
C12_TriggersRemove ==
  [][ /\ \A t \in Threads :
           (frame[t].fn = "td" /\ frame'[t].fn = "idle") => inkbirds'[frame[t].p] = 0
      /\ (sweep.phase = "tearing" /\ sweep'.phase # "tearing")
           => \A p \in sweep.todo : inkbirds'[p] = 0 ]_vars

\* C13: whether its bus calls return or raise, a teardown cancels the retry
\* as it begins, goes on after every StopNotify, drops the handles and the
\* bindings and deallocates the slot after Disconnect, and removes the
\* record after RemoveDevice.
TeardownDone(p) ==
  /\ p \notin temperatures' \cup commands' \cup batteries'
  /\ bind'[p] = <<>>
  /\ allocated_offsets'[p] = NoOffset

C13_TeardownCompletes ==
  [][ \A t \in Threads :
        /\ (frame[t].fn # "td" /\ frame'[t].fn = "td")
             => (/\ obj'[frame'[t].o].state = "TEARDOWN"
                 /\ obj'[frame'[t].o].retry_timer = "None"
                 /\ obj'[frame'[t].o].timers = 0)
        /\ (frame[t].fn = "td" /\ frame'[t] # frame[t])
             => CASE frame[t].pc = "Disconnect" ->
                       frame'[t].pc = "RemoveDevice" /\ TeardownDone(frame[t].p)
                  [] frame[t].pc = "RemoveDevice" ->
                       frame'[t].fn = "idle" /\ inkbirds'[frame[t].p] = 0
                  [] OTHER -> frame'[t].fn = "td" ]_vars

\* a teardown of a device that held a slot has come to RemoveDevice although
\* StopNotify and Disconnect raised
C13_FailedCallsReached ==
  \E t \in Threads :
    /\ frame[t].fn = "td"
    /\ frame[t].pc = "RemoveDevice"
    /\ frame[t].failed = {"StopNotify", "Disconnect"}
    /\ frame[t].held # NoOffset
    /\ allocated_offsets[frame[t].p] = NoOffset
    /\ bind[frame[t].p] = <<>>

\* C14: value[] and filter[] change only by a notification of a device that
\* holds a slot, and within its four channels; a teardown deallocates a
\* slot only when StopNotify has been called on every characteristic of the
\* device that StartNotify was called on.
WrittenChannels ==
  { c \in 0 .. NCHAN - 1 :
      thermostamp'[c] # thermostamp[c] \/ thermofilter'[c] # thermofilter[c] }

C14_SlotBracketsSamples ==
  [][ /\ WrittenChannels # {}
        => (/\ handled' \in AllPaths
            /\ allocated_offsets'[handled'] \in FreeInit
            /\ \A c \in WrittenChannels :
                 c \in allocated_offsets'[handled'] .. allocated_offsets'[handled'] + 3)
      /\ \A t \in Threads :
           (/\ frame[t].fn = "td" /\ frame[t].pc = "Disconnect" /\ frame'[t] # frame[t]
            /\ allocated_offsets[frame[t].p] # NoOffset)
             => notifying[frame[t].p] = {} ]_vars

\* C15: while the logger is between its test of stamp and its clearing of
\* stamp no other step writes the register, and the snapshot it took is the
\* content of thermostamp when it clears stamp.
C15_LoggerSerialised ==
  [][ /\ (logger.pc \in {"sample", "clear"} /\ logger'.pc = logger.pc)
           => (thermostamp' = thermostamp /\ stamp' = stamp)
      /\ (logger.pc = "clear" /\ logger'.pc = "count")
           => logger.sample = thermostamp ]_vars

\* C16: every thermocount[c] is within 0 .. MAXWAIT.
C16_CountBounded ==
  \A c \in 0 .. NCHAN - 1 : 0 <= thermocount[c] /\ thermocount[c] <= MAXWAIT

\* a channel of the device has waited MAXWAIT log cycles while another was
\* stamped afresh
C16_CapReached ==
  \E p \in RegSet :
    /\ Allocated(p)
    /\ thermocount[allocated_offsets[p] + 1] = MAXWAIT
    /\ thermocount[allocated_offsets[p]] < MAXWAIT
    /\ stamp

\* C17: after 25 cycles that each fed the same payload and ran the logger
\* once, the cycles whose feed left stamp set are the 1st and the 21st.
C17_StampedCycles == cycles.n = Cycles => cycles.stamped = {1, 21}

\* C18: a notification whose payload is shorter than 12 bytes or does not
\* carry FE 7F FE 7F in bytes 8..11 leaves thermostamp, thermofilter,
\* thermocount and stamp as they were.
C18_InvalidDropped ==
  [][ (/\ handled' # 0
       /\ \/ Len(packet') < 12
          \/ << packet'[9], packet'[10], packet'[11], packet'[12] >> # << 254, 127, 254, 127 >>)
        => (/\ thermostamp' = thermostamp
            /\ thermofilter' = thermofilter
            /\ thermocount' = thermocount
            /\ stamp' = stamp) ]_vars

\* a rejected payload was delivered for a device that holds a slot with
\* samples in it
C18_RejectedReached ==
  \E p \in SubSet :
    /\ handled = p
    /\ packet \in InvalidPackets
    /\ Allocated(p)
    /\ thermostamp[allocated_offsets[p]] # NaN
    /\ stamp

\* C19: for every byte pair the decoder's integer is
\* (((hi XOR 0x80) << 8) | lo) - 0x8000, within -32768 .. 32767; the value
\* of the channel that carries the pair is (signed - 320)/18 (here in
\* units of 1/(18 Q) degree), the other channels decode their own bytes
\* 3C 81, whose integer is -32452.
C19_Decoder ==
  decoded.done =>
    /\ decoded.signed = ((decoded.hi + 128) % 256) * 256 + decoded.lo - 32768
    /\ decoded.signed >= 0 - 32768
    /\ decoded.signed <= 32767
    /\ decoded.t4[decoded.i] = (decoded.signed - 320) * Q
    /\ \A j \in (0 .. 3) \ {decoded.i} : decoded.t4[j] = (0 - 32452 - 320) * Q
    /\ (decoded.lo = 60 /\ decoded.hi = 129) => decoded.signed = 0 - 32452

\* the pair 3C 81 decoded on the last channel
C19_ExampleReached ==
  /\ decoded.done
  /\ decoded.lo = 60
  /\ decoded.hi = 129
  /\ decoded.i = 3
  /\ decoded.signed = 0 - 32452

\* C20: with a free offset left, allocate gives a path the offset it held
\* before its last deallocate when no other path has taken that offset
\* since, and the smallest free offset otherwise; the offset leaves
\* free_offsets and becomes the path's entry in allocated_offsets.
C20_AllocateChoice ==
  [][ \A p \in AllPaths :
        (/\ allocated_offsets[p] = NoOffset
         /\ allocated_offsets'[p] # NoOffset
         /\ free_offsets # {})
          => LET free == FreeValues(free_offsets)
                 v == allocated_offsets'[p]
             IN /\ v = IF last[p] # NoOffset THEN last[p]
                        ELSE CHOOSE m \in free : \A w \in free : m <= w
                /\ last[p] # NoOffset => last[p] \in free
                /\ v \in free
                /\ FreeValues(free_offsets') = free \ {v}
                /\ \A q \in AllPaths \ {p} : allocated_offsets'[q] = allocated_offsets[q] ]_vars

\* a path holds again the offset it held before, although a smaller one is free
C20_ReusedReached ==
  \E p \in AllocSet :
    /\ Allocated(p)
    /\ last[p] = allocated_offsets[p]
    /\ \E w \in FreeValues(free_offsets) : w < allocated_offsets[p]

\* C21: with a free offset left and p without an entry, allocate(p) and
\* then deallocate(p) leave the set of free offsets and allocated_offsets
\* as they were, the offset given back being the one taken; deallocate(p)
\* for a p without an entry changes nothing.
C21_RoundTrip ==
  \A p \in AllPaths :
    allocated_offsets[p] = NoOffset =>
      /\ deallocate(allocated_offsets, free_offsets, p) = << allocated_offsets, free_offsets >>
      /\ free_offsets # {} =>
           LET a == allocate(allocated_offsets, free_offsets, p)
               d == deallocate(a[1], a[2], p)
           IN /\ a[1][p] \in FreeValues(free_offsets)
              /\ FreeValues(a[2]) = FreeValues(free_offsets) \ {a[1][p]}
              /\ FreeValues(d[2]) = FreeValues(free_offsets)
              /\ FreeValues(d[2]) \ FreeValues(a[2]) = {a[1][p]}
              /\ d[1] = allocated_offsets

\* a path has allocated and deallocated, and other paths hold offsets
C21_RoundTripReached ==
  \E p \in AllocSet :
    /\ ~Allocated(p)
    /\ last[p] # NoOffset
    /\ << PathKey(p), last[p] >> \in free_offsets
    /\ \E q \in AllocSet : Allocated(q)

\* C22: a pseudo-pairing issues StartNotify on the temperature
\* characteristic, then the kickoff write, then the three initialization
\* writes in order, then one bind_notify per queued binding in order; the
\* device becomes ACTIVE only in the step in which the last of these calls
\* returns without error.
PairOrder(f, g) ==
  \/ g.fn = "idle"
  \/ /\ g.fn = "pair" /\ g.p = f.p /\ g.o = f.o
     /\ CASE f.pc = "StartNotify" -> g.pc = "Kickoff"
          [] f.pc = "Kickoff" -> g.pc = "Init1"
          [] f.pc = "Init1" -> g.pc = "Init2"
          [] f.pc = "Init2" -> g.pc = "Init3"
          [] f.pc = "Init3" -> g.pc = "Bind" /\ g.bl = bind[f.p]
          [] OTHER -> g.pc = "Bind" /\ g.bl = Tail(f.bl)

LastCall(f) ==
  \/ f.pc = "Init3" /\ bind[f.p] = <<>>
  \/ f.pc = "Bind" /\ Len(f.bl) = 1

C22_PairingOrder ==
  [][ /\ \A t \in Threads :
           /\ (frame[t].fn # "pair" /\ frame'[t].fn = "pair") => frame'[t].pc = "StartNotify"
           /\ (frame[t].fn = "pair" /\ frame'[t] # frame[t]) => PairOrder(frame[t], frame'[t])
      /\ \A o \in ObjIds :
           (obj[o].state # "ACTIVE" /\ obj'[o].state = "ACTIVE")
             => \E t \in Threads :
                  /\ frame[t].fn = "pair" /\ frame[t].o = o
                  /\ LastCall(frame[t])
                  /\ frame'[t].fn = "idle"
                  /\ obj'[o].retry_timer = obj[o].retry_timer ]_vars

\* a device is ACTIVE with the temperature handler connected and all its
\* characteristics queued
C22_PairedReached ==
  \E p \in AllPaths :
    /\ Active(p)
    /\ subs[p] >= 1
    /\ Len(bind[p]) = NumKinds
    /\ \A t \in Threads : frame[t] = Idle

\* C23: whichever branch a logger tick takes, and whether or not a
\* ReadValue of the stall branch fails or goes to a device that was torn
\* down, the logger re-arms its timer: the logger thread never ends.
C23_LoggerRecurs == logger.pc # "dead"

\* C24: a record does not go from CONNECTING to CONNECTED in the step in
\* which Connect() returns; it enters CONNECTED from CONNECTING only; and an
\* ACTIVE record is not taken back to an earlier state.
C24_ConnectedBySignal ==
  [][ \A o \in ObjIds :
        /\ (obj[o].state = "CONNECTING" /\ obj'[o].state = "CONNECTED")
             => ~ \E t \in Threads :
                    frame[t].fn = "ia" /\ frame[t].o = o /\ frame'[t] # frame[t]
        /\ (obj[o].state # "CONNECTED" /\ obj'[o].state = "CONNECTED")
             => obj[o].state = "CONNECTING"
        /\ obj[o].state = "ACTIVE" => obj'[o].state \in {"ACTIVE", "TEARDOWN"} ]_vars

\* C25: while a device record exists, at most one temperature_callback
\* handler is connected to its temperature characteristic.
C25_OneHandler == \A p \in AllPaths : subs[p] <= 1

\* C26: a pseudo-pairing attempt that fails leaves a retry timer pending;
\* and a CONNECTED device with its temperature and command characteristics
\* known, with an attempt in progress or a retry pending, becomes ACTIVE.
Attempting(p) ==
  /\ Known(p)
  /\ obj[inkbirds[p]].state = "CONNECTED"
  /\ p \in temperatures
  /\ p \in commands
  /\ \/ obj[inkbirds[p]].timers > 0
     \/ \E t \in Threads : frame[t].fn = "pair" /\ frame[t].p = p

C26_RetryLiveness ==
  /\ [][ \A t \in Threads : PairingFailed(t) => RetryLeft(frame[t].o) ]_vars
  /\ \A p \in PairSet : Attempting(p) ~> Active(p)

\* a device is ACTIVE after a retry timer of its record fired
C26_RetriedReached ==
  \E p \in PairSet :
    /\ Active(p)
    /\ obj[inkbirds[p]].retry_timer = "Dead"
    /\ obj[inkbirds[p]].timers = 0
    /\ \A t \in Threads : frame[t] = Idle
====
